---- MODULE Spec2Model ----
(***************************************************************************)
(* Model of the SpatialNavigator zoom state machine                         *)
(* (old/traditional/concepts/cpp_nav/SpatialNavigator.{h,cpp}).             *)
(*                                                                         *)
(* The state is the four private members of the class, the call made last  *)
(* by the surrounding driver, and the lines that call wrote to std::cout.  *)
(* Two history variables record what the caller has done: hist holds the   *)
(* last two calls with the members as they were when each call began, and  *)
(* windowFor the app that was active when a window index was last stored.  *)
(* Every member function is one action; zoomIn and zoomOut are split into  *)
(* one operator per branch of their if/else chain.                         *)
(***************************************************************************)
EXTENDS Integers, Sequences, FiniteSets, TLC

VARIABLES m_currentLevel, m_activeSectorIndex, m_activeAppIndex,
          m_activeWindowIndex, call, out, hist, windowFor

vars == <<m_currentLevel, m_activeSectorIndex, m_activeAppIndex,
          m_activeWindowIndex, call, out, hist, windowFor>>

\* The navigator state proper (the private members of SpatialNavigator).
nav == <<m_currentLevel, m_activeSectorIndex, m_activeAppIndex,
         m_activeWindowIndex>>

----------------------------------------------------------------------------
\* Bound of the model: targetIndex ranges over -MaxIdx..MaxIdx.
MaxIdx == 2

\* enum class ZoomLevel, with the integer values printStatus prints.
LEVEL_1_ROOT == 0
LEVEL_2_SECTOR == 1
LEVEL_3_FOCUS == 2
LEVEL_3A_PICKER == 3

ZoomLevel == {LEVEL_1_ROOT, LEVEL_2_SECTOR, LEVEL_3_FOCUS, LEVEL_3A_PICKER}

\* The sentinel the constructor and zoomOut store for "no selection".
Unset == -1

\* The values the int parameter targetIndex is drawn from.
TargetIndex == (-MaxIdx)..MaxIdx

\* C++ operator% on int: the quotient truncates toward zero, so the
\* remainder takes the sign of the dividend (b > 0 here).
CRem(a, b) == IF a >= 0 THEN a % b ELSE -((-a) % b)

\* Mutant: only positive even indices count as multi-window.
hasMultipleWindows_positiveOnly(appIndex) == appIndex > 0 /\ CRem(appIndex, 2) = 0

\* Mutant: the parity test is inverted.
hasMultipleWindows_inverted(appIndex) == CRem(appIndex, 2) # 0

\* bool hasMultipleWindows = (m_activeAppIndex % 2 == 0);
hasMultipleWindows(appIndex) == CRem(appIndex, 2) = 0

\* printStatus(): "Current State: " << (int)m_currentLevel
printStatus(level) == <<"Current State: ", level>>

\* The caller invokes member function c (with its argument): the call is
\* recorded together with the members as they are on entry; a zoomIn made
\* at the Picker is a window selection for the app active at that moment.
Called(c) ==
    /\ call' = c
    /\ hist' = (IF Len(hist) < 2 THEN hist ELSE Tail(hist)) \o << <<c, nav>> >>
    /\ windowFor' = IF c[1] = "zoomIn" /\ m_currentLevel = LEVEL_3A_PICKER
                    THEN <<m_activeAppIndex>>
                    ELSE windowFor

----------------------------------------------------------------------------
\* Mutant: the window index starts at 0 instead of the sentinel.
Init_windowZero ==
    /\ m_currentLevel = LEVEL_1_ROOT
    /\ m_activeSectorIndex = -1
    /\ m_activeAppIndex = -1
    /\ m_activeWindowIndex = 0
    /\ call = <<"new">>
    /\ out = <<>>
    /\ hist = <<>>
    /\ windowFor = <<>>

\* SpatialNavigator::SpatialNavigator()
Init ==
    /\ m_currentLevel = LEVEL_1_ROOT
    /\ m_activeSectorIndex = -1
    /\ m_activeAppIndex = -1
    /\ m_activeWindowIndex = -1
    /\ call = <<"new">>
    /\ out = <<>>
    /\ hist = <<>>
    /\ windowFor = <<>>

----------------------------------------------------------------------------
\* zoomIn, branch m_currentLevel == LEVEL_1_ROOT
zoomInRoot(targetIndex) ==
    /\ m_activeSectorIndex' = targetIndex
    /\ m_currentLevel' = LEVEL_2_SECTOR
    /\ UNCHANGED <<m_activeAppIndex, m_activeWindowIndex>>
    /\ out' = << <<"[Zoom In] Entering Sector ", targetIndex>>,
                 printStatus(m_currentLevel') >>

\* Mutant: a multi-window app opens its window picker straight from Sector.
zoomInSector_opensPicker(targetIndex) ==
    /\ m_activeAppIndex' = targetIndex
    /\ m_currentLevel' = (IF hasMultipleWindows(targetIndex)
                          THEN LEVEL_3A_PICKER ELSE LEVEL_3_FOCUS)
    /\ UNCHANGED <<m_activeSectorIndex, m_activeWindowIndex>>
    /\ out' = << <<"[Zoom In] Focusing on App ", targetIndex,
                   " (Morphing SSD Frame...)">>,
                 printStatus(m_currentLevel') >>

\* Mutant: the Sector branch stores the target in the sector index.
zoomInSector_storesSector(targetIndex) ==
    /\ m_activeSectorIndex' = targetIndex
    /\ m_currentLevel' = LEVEL_3_FOCUS
    /\ UNCHANGED <<m_activeAppIndex, m_activeWindowIndex>>
    /\ out' = << <<"[Zoom In] Focusing on App ", targetIndex,
                   " (Morphing SSD Frame...)">>,
                 printStatus(m_currentLevel') >>

\* zoomIn, branch m_currentLevel == LEVEL_2_SECTOR
zoomInSector(targetIndex) ==
    /\ m_activeAppIndex' = targetIndex
    /\ m_currentLevel' = LEVEL_3_FOCUS
    /\ UNCHANGED <<m_activeSectorIndex, m_activeWindowIndex>>
    /\ out' = << <<"[Zoom In] Focusing on App ", targetIndex,
                   " (Morphing SSD Frame...)">>,
                 printStatus(m_currentLevel') >>

\* Mutant: the Picker branch stores the target in the app index.
zoomInPicker_overwritesApp(targetIndex) ==
    /\ m_activeAppIndex' = targetIndex
    /\ m_currentLevel' = LEVEL_3_FOCUS
    /\ UNCHANGED <<m_activeSectorIndex, m_activeWindowIndex>>
    /\ out' = << <<"[Zoom In] Selected Window ", targetIndex,
                   " from Picker.">>,
                 printStatus(m_currentLevel') >>

\* zoomIn, branch m_currentLevel == LEVEL_3A_PICKER
zoomInPicker(targetIndex) ==
    /\ m_activeWindowIndex' = targetIndex
    /\ m_currentLevel' = LEVEL_3_FOCUS
    /\ UNCHANGED <<m_activeSectorIndex, m_activeAppIndex>>
    /\ out' = << <<"[Zoom In] Selected Window ", targetIndex,
                   " from Picker.">>,
                 printStatus(m_currentLevel') >>

\* zoomIn, final else branch (LEVEL_3_FOCUS)
zoomInDeepest ==
    /\ UNCHANGED nav
    /\ out' = << <<"[Navigate] Already at deepest level (Level 3 Focus).">>,
                 printStatus(m_currentLevel') >>

\* Mutant: negative targets are rejected instead of stored.
zoomIn_rejectsNegative(targetIndex) ==
    /\ targetIndex >= 0
    /\ Called(<<"zoomIn", targetIndex>>)
    /\ IF m_currentLevel = LEVEL_1_ROOT THEN zoomInRoot(targetIndex)
       ELSE IF m_currentLevel = LEVEL_2_SECTOR THEN zoomInSector(targetIndex)
       ELSE IF m_currentLevel = LEVEL_3A_PICKER THEN zoomInPicker(targetIndex)
       ELSE zoomInDeepest

\* Mutant: the Picker branch is a plain else, so Focus falls into it.
zoomIn_pickerAsElse(targetIndex) ==
    /\ Called(<<"zoomIn", targetIndex>>)
    /\ IF m_currentLevel = LEVEL_1_ROOT THEN zoomInRoot(targetIndex)
       ELSE IF m_currentLevel = LEVEL_2_SECTOR THEN zoomInSector(targetIndex)
       ELSE zoomInPicker(targetIndex)

\* void SpatialNavigator::zoomIn(int targetIndex)
zoomIn(targetIndex) ==
    /\ Called(<<"zoomIn", targetIndex>>)
    /\ IF m_currentLevel = LEVEL_1_ROOT THEN zoomInRoot(targetIndex)
       ELSE IF m_currentLevel = LEVEL_2_SECTOR THEN zoomInSector(targetIndex)
       ELSE IF m_currentLevel = LEVEL_3A_PICKER THEN zoomInPicker(targetIndex)
       ELSE zoomInDeepest

----------------------------------------------------------------------------
\* zoomOut, branch m_currentLevel == LEVEL_3_FOCUS
zoomOutFocus ==
    IF hasMultipleWindows(m_activeAppIndex)
    THEN /\ m_currentLevel' = LEVEL_3A_PICKER
         /\ UNCHANGED <<m_activeSectorIndex, m_activeAppIndex,
                        m_activeWindowIndex>>
         /\ out' = << <<"[Zoom Out] Multiple windows detected -> Entering Window Picker (Level 3a).">>,
                      printStatus(m_currentLevel') >>
    ELSE /\ m_currentLevel' = LEVEL_2_SECTOR
         /\ m_activeAppIndex' = -1
         /\ UNCHANGED <<m_activeSectorIndex, m_activeWindowIndex>>
         /\ out' = << <<"[Zoom Out] Returning to Sector View (Level 2).">>,
                      printStatus(m_currentLevel') >>

\* Mutant: zooming out of the Picker cancels the selection back to Focus.
zoomOutPicker_backToFocus ==
    /\ m_currentLevel' = LEVEL_3_FOCUS
    /\ UNCHANGED <<m_activeSectorIndex, m_activeAppIndex, m_activeWindowIndex>>
    /\ out' = << <<"[Zoom Out] Returning to Sector View (Level 2) from Picker.">>,
                 printStatus(m_currentLevel') >>

\* Mutant: leaving the Picker resets the sector selection as well.
zoomOutPicker_resetsSector ==
    /\ m_currentLevel' = LEVEL_2_SECTOR
    /\ m_activeAppIndex' = -1
    /\ m_activeSectorIndex' = -1
    /\ UNCHANGED m_activeWindowIndex
    /\ out' = << <<"[Zoom Out] Returning to Sector View (Level 2) from Picker.">>,
                 printStatus(m_currentLevel') >>

\* Mutant: leaving the Picker forgets to reset the app selection.
zoomOutPicker_keepsApp ==
    /\ m_currentLevel' = LEVEL_2_SECTOR
    /\ UNCHANGED <<m_activeSectorIndex, m_activeAppIndex, m_activeWindowIndex>>
    /\ out' = << <<"[Zoom Out] Returning to Sector View (Level 2) from Picker.">>,
                 printStatus(m_currentLevel') >>

\* zoomOut, branch m_currentLevel == LEVEL_3A_PICKER
zoomOutPicker ==
    /\ m_currentLevel' = LEVEL_2_SECTOR
    /\ m_activeAppIndex' = -1
    /\ UNCHANGED <<m_activeSectorIndex, m_activeWindowIndex>>
    /\ out' = << <<"[Zoom Out] Returning to Sector View (Level 2) from Picker.">>,
                 printStatus(m_currentLevel') >>

\* Mutant: returning to Root forgets to reset the sector selection.
zoomOutSector_keepsSector ==
    /\ m_currentLevel' = LEVEL_1_ROOT
    /\ UNCHANGED <<m_activeSectorIndex, m_activeAppIndex, m_activeWindowIndex>>
    /\ out' = << <<"[Zoom Out] Returning to Root Overview (Level 1).">>,
                 printStatus(m_currentLevel') >>

\* Mutant: the status line is printed for the level the call started at.
zoomOutSector_statusBefore ==
    /\ m_currentLevel' = LEVEL_1_ROOT
    /\ m_activeSectorIndex' = -1
    /\ UNCHANGED <<m_activeAppIndex, m_activeWindowIndex>>
    /\ out' = << <<"[Zoom Out] Returning to Root Overview (Level 1).">>,
                 printStatus(m_currentLevel) >>

\* zoomOut, branch m_currentLevel == LEVEL_2_SECTOR
zoomOutSector ==
    /\ m_currentLevel' = LEVEL_1_ROOT
    /\ m_activeSectorIndex' = -1
    /\ UNCHANGED <<m_activeAppIndex, m_activeWindowIndex>>
    /\ out' = << <<"[Zoom Out] Returning to Root Overview (Level 1).">>,
                 printStatus(m_currentLevel') >>

\* Mutant: the top-level branch resets every selection.
zoomOutTop_clearsIndices ==
    /\ UNCHANGED m_currentLevel
    /\ m_activeSectorIndex' = -1
    /\ m_activeAppIndex' = -1
    /\ m_activeWindowIndex' = -1
    /\ out' = << <<"[Navigate] Already at top level (Level 1 Root).">>,
                 printStatus(m_currentLevel') >>

\* zoomOut, final else branch (LEVEL_1_ROOT)
zoomOutTop ==
    /\ UNCHANGED nav
    /\ out' = << <<"[Navigate] Already at top level (Level 1 Root).">>,
                 printStatus(m_currentLevel') >>

\* void SpatialNavigator::zoomOut()
zoomOut ==
    /\ Called(<<"zoomOut">>)
    /\ IF m_currentLevel = LEVEL_3_FOCUS THEN zoomOutFocus
       ELSE IF m_currentLevel = LEVEL_3A_PICKER THEN zoomOutPicker
       ELSE IF m_currentLevel = LEVEL_2_SECTOR THEN zoomOutSector
       ELSE zoomOutTop

----------------------------------------------------------------------------
\* Mutant: splitting at Focus reverts the navigator itself to Sector.
splitView_revertsToSector ==
    /\ Called(<<"splitView">>)
    /\ IF m_currentLevel = LEVEL_3_FOCUS
       THEN /\ m_currentLevel' = LEVEL_2_SECTOR
            /\ UNCHANGED <<m_activeSectorIndex, m_activeAppIndex,
                           m_activeWindowIndex>>
            /\ out' = << <<"[Split] Splitting Viewport...">>,
                         <<"  -> Left Pane: Retains App Focus (Level 3)">>,
                         <<"  -> Right Pane: Reverts to Level 2 (Sector Selection)">> >>
       ELSE /\ UNCHANGED nav
            /\ out' = << <<"[Split] Can only split from a focused app (Level 3).">> >>

\* void SpatialNavigator::splitView()
splitView ==
    /\ Called(<<"splitView">>)
    /\ UNCHANGED nav
    /\ IF m_currentLevel = LEVEL_3_FOCUS
       THEN out' = << <<"[Split] Splitting Viewport...">>,
                      <<"  -> Left Pane: Retains App Focus (Level 3)">>,
                      <<"  -> Right Pane: Reverts to Level 2 (Sector Selection)">> >>
       ELSE out' = << <<"[Split] Can only split from a focused app (Level 3).">> >>

----------------------------------------------------------------------------
Next ==
    \/ \E targetIndex \in TargetIndex : zoomIn(targetIndex)
    \/ zoomOut
    \/ splitView

Spec == Init /\ [][Next]_vars

----------------------------------------------------------------------------
\* Level sets and readings of "set" used by the properties below.
SectorLevels == {LEVEL_2_SECTOR, LEVEL_3_FOCUS, LEVEL_3A_PICKER}
AppLevels == {LEVEL_3_FOCUS, LEVEL_3A_PICKER}
IsSet(index) == index # Unset

\* C1: in every reachable state, activeSectorIndex is set if and only if
\* the level is Sector, Focus or Picker.
C1_SectorSetIffLevel ==
    IsSet(m_activeSectorIndex) <=> (m_currentLevel \in SectorLevels)

\* C2: in every reachable state, activeAppIndex is set if and only if the
\* level is Focus or Picker.
C2_AppSetIffLevel ==
    IsSet(m_activeAppIndex) <=> (m_currentLevel \in AppLevels)

\* C3: in every reachable state whose level is Root, Sector or Picker,
\* activeWindowIndex is unset.
C3_WindowClearedOutsideFocus ==
    (m_currentLevel \in {LEVEL_1_ROOT, LEVEL_2_SECTOR, LEVEL_3A_PICKER})
        => ~IsSet(m_activeWindowIndex)

\* C4: zoomOut() at Focus moves to Picker, keeping the app and sector
\* indices, exactly when the active app index is even (negative indices
\* included); otherwise it moves to Sector with the app index unset and
\* the sector index unchanged.
C4_ZoomOutAtFocus ==
    [][ (m_currentLevel = LEVEL_3_FOCUS /\ call' = <<"zoomOut">>) =>
          IF \E k \in TargetIndex : m_activeAppIndex = 2 * k
          THEN /\ m_currentLevel' = LEVEL_3A_PICKER
               /\ m_activeAppIndex' = m_activeAppIndex
               /\ m_activeSectorIndex' = m_activeSectorIndex
          ELSE /\ m_currentLevel' = LEVEL_2_SECTOR
               /\ m_activeAppIndex' = Unset
               /\ m_activeSectorIndex' = m_activeSectorIndex ]_vars

\* C4 witness: zoomOut() has just taken Focus to Picker for a negative
\* even app index.
C4_Witness ==
    /\ call = <<"zoomOut">>
    /\ m_currentLevel = LEVEL_3A_PICKER
    /\ m_activeAppIndex = -2

\* C5: zoomIn(t) at Root moves to Sector with activeSectorIndex = t and no
\* other index changed; zoomIn(t) at Sector moves to Focus with
\* activeAppIndex = t and no other index changed; from a fresh navigator
\* zoomIn(0); zoomIn(1) visits Sector(sector=0) and Focus(sector=0, app=1).
C5_ZoomInRootAndSector ==
    [][ /\ \A t \in TargetIndex :
             (m_currentLevel = LEVEL_1_ROOT /\ call' = <<"zoomIn", t>>) =>
                 /\ m_currentLevel' = LEVEL_2_SECTOR
                 /\ m_activeSectorIndex' = t
                 /\ m_activeAppIndex' = m_activeAppIndex
                 /\ m_activeWindowIndex' = m_activeWindowIndex
        /\ \A t \in TargetIndex :
             (m_currentLevel = LEVEL_2_SECTOR /\ call' = <<"zoomIn", t>>) =>
                 /\ m_currentLevel' = LEVEL_3_FOCUS
                 /\ m_activeAppIndex' = t
                 /\ m_activeSectorIndex' = m_activeSectorIndex
                 /\ m_activeWindowIndex' = m_activeWindowIndex
        /\ (nav = <<LEVEL_1_ROOT, Unset, Unset, Unset>>
              /\ call' = <<"zoomIn", 0>>)
             => nav' = <<LEVEL_2_SECTOR, 0, Unset, Unset>>
        /\ (nav = <<LEVEL_2_SECTOR, 0, Unset, Unset>>
              /\ call' = <<"zoomIn", 1>>)
             => nav' = <<LEVEL_3_FOCUS, 0, 1, Unset>> ]_vars

\* C5 witness: the end of the depth-3 sequence, Focus(sector=0, app=1)
\* right after zoomIn(1).
C5_Witness ==
    /\ call = <<"zoomIn", 1>>
    /\ nav = <<LEVEL_3_FOCUS, 0, 1, Unset>>
    /\ out[1] = <<"[Zoom In] Focusing on App ", 1, " (Morphing SSD Frame...)">>

\* C6: zoomIn(w) at Picker moves to Focus with activeWindowIndex = w and
\* leaves activeAppIndex and activeSectorIndex as they were.
C6_ZoomInAtPicker ==
    [][ \A w \in TargetIndex :
          (m_currentLevel = LEVEL_3A_PICKER /\ call' = <<"zoomIn", w>>) =>
              /\ m_currentLevel' = LEVEL_3_FOCUS
              /\ m_activeWindowIndex' = w
              /\ m_activeAppIndex' = m_activeAppIndex
              /\ m_activeSectorIndex' = m_activeSectorIndex ]_vars

\* C6 witness: a window with a negative index has just been selected from
\* the picker of app 2 in sector 1.
C6_Witness ==
    /\ call = <<"zoomIn", -2>>
    /\ out[1] = <<"[Zoom In] Selected Window ", -2, " from Picker.">>
    /\ nav = <<LEVEL_3_FOCUS, 1, 2, -2>>

\* C7: zoomOut() at Picker moves to Sector with activeAppIndex cleared and
\* activeSectorIndex unchanged; zoomOut() at Sector moves to Root with
\* activeSectorIndex cleared.
C7_ZoomOutPickerAndSector ==
    [][ /\ (m_currentLevel = LEVEL_3A_PICKER /\ call' = <<"zoomOut">>) =>
              /\ m_currentLevel' = LEVEL_2_SECTOR
              /\ m_activeAppIndex' = Unset
              /\ m_activeSectorIndex' = m_activeSectorIndex
        /\ (m_currentLevel = LEVEL_2_SECTOR /\ call' = <<"zoomOut">>) =>
              /\ m_currentLevel' = LEVEL_1_ROOT
              /\ m_activeSectorIndex' = Unset ]_vars

\* C7 witness: zoomOut() has just left the Picker for sector 2.
C7_Witness ==
    /\ call = <<"zoomOut">>
    /\ out[1] = <<"[Zoom Out] Returning to Sector View (Level 2) from Picker.">>
    /\ m_currentLevel = LEVEL_2_SECTOR
    /\ m_activeSectorIndex = 2
    /\ m_activeAppIndex = Unset

\* C8: zoomIn(x) at Focus leaves the level and all three indices unchanged.
C8_ZoomInAtFocusNoOp ==
    [][ \A x \in TargetIndex :
          (m_currentLevel = LEVEL_3_FOCUS /\ call' = <<"zoomIn", x>>)
              => nav' = nav ]_vars

\* C8 witness: zoomIn(2) was just refused at a Focus state that holds a
\* window index other than 2.
C8_Witness ==
    /\ call = <<"zoomIn", 2>>
    /\ out[1] = <<"[Navigate] Already at deepest level (Level 3 Focus).">>
    /\ nav = <<LEVEL_3_FOCUS, 1, 0, 1>>

\* C9: zoomOut() at Root leaves the level and all three indices unchanged.
C9_ZoomOutAtRootNoOp ==
    [][ (m_currentLevel = LEVEL_1_ROOT /\ call' = <<"zoomOut">>)
            => nav' = nav ]_vars

\* C9 witness: zoomOut() was just refused at Root.
C9_Witness ==
    /\ call = <<"zoomOut">>
    /\ out[1] = <<"[Navigate] Already at top level (Level 1 Root).">>
    /\ m_currentLevel = LEVEL_1_ROOT

\* C10: splitView() changes neither the level nor any index; at Focus it
\* reports the two-pane split and at Root, Sector and Picker a rejection.
C10_SplitViewNoOp ==
    [][ call' = <<"splitView">> =>
          /\ nav' = nav
          /\ (m_currentLevel = LEVEL_3_FOCUS) =>
                out' = << <<"[Split] Splitting Viewport...">>,
                          <<"  -> Left Pane: Retains App Focus (Level 3)">>,
                          <<"  -> Right Pane: Reverts to Level 2 (Sector Selection)">> >>
          /\ (m_currentLevel \in {LEVEL_1_ROOT, LEVEL_2_SECTOR, LEVEL_3A_PICKER}) =>
                out' = << <<"[Split] Can only split from a focused app (Level 3).">> >> ]_vars

\* C10 witness: splitView() has just reported the two-pane split at Focus.
C10_Witness ==
    /\ call = <<"splitView">>
    /\ m_currentLevel = LEVEL_3_FOCUS
    /\ Len(out) = 3

----------------------------------------------------------------------------
\* Readings of the call history used by the properties below: entry i of
\* hist is <<the call, the members on entry to it>>, the last entry being
\* the call that produced the current state.
CallOf(i) == hist[i][1]
NavBefore(i) == hist[i][2]
LevelBefore(i) == hist[i][2][1]
IsEven(index) == \E k \in TargetIndex : index = 2 * k

\* C11: from any reachable state at Root, zoomIn(s) followed by zoomOut()
\* returns to Root with activeSectorIndex unset, and the members after the
\* pair equal the members before it.
C11_ZoomInThenOutAtRoot ==
    \A s \in TargetIndex :
        ( /\ Len(hist) = 2
          /\ CallOf(1) = <<"zoomIn", s>>
          /\ LevelBefore(1) = LEVEL_1_ROOT
          /\ CallOf(2) = <<"zoomOut">> )
        => /\ m_currentLevel = LEVEL_1_ROOT
           /\ m_activeSectorIndex = Unset
           /\ nav = NavBefore(1)

\* C11 witness: the pair zoomIn(-1); zoomOut() has just been made from a
\* Root state that still held window index 1.
C11_Witness ==
    /\ Len(hist) = 2
    /\ CallOf(1) = <<"zoomIn", -1>>
    /\ NavBefore(1) = <<LEVEL_1_ROOT, Unset, Unset, 1>>
    /\ CallOf(2) = <<"zoomOut">>
    /\ m_currentLevel = LEVEL_1_ROOT

\* C12: in every step in which the level becomes Picker, the level before
\* was Focus, the call was zoomOut() and the active app index was even; no
\* zoomIn or splitView call and no call at Root or Sector produces Picker.
C12_PickerOnlyFromFocus ==
    [][ /\ (m_currentLevel' = LEVEL_3A_PICKER
              /\ m_currentLevel # LEVEL_3A_PICKER)
             => /\ m_currentLevel = LEVEL_3_FOCUS
                /\ call' = <<"zoomOut">>
                /\ IsEven(m_activeAppIndex)
        /\ (call'[1] = "zoomIn") => m_currentLevel' # LEVEL_3A_PICKER
        /\ (call' = <<"splitView">>) => m_currentLevel' = m_currentLevel
        /\ (m_currentLevel \in {LEVEL_1_ROOT, LEVEL_2_SECTOR})
             => m_currentLevel' # LEVEL_3A_PICKER ]_vars

\* C12 witness: the Picker has just been entered from Focus for app 2,
\* which itself had been entered from Sector.
C12_Witness ==
    /\ m_currentLevel = LEVEL_3A_PICKER
    /\ Len(hist) = 2
    /\ CallOf(1) = <<"zoomIn", 2>>
    /\ LevelBefore(1) = LEVEL_2_SECTOR
    /\ CallOf(2) = <<"zoomOut">>
    /\ LevelBefore(2) = LEVEL_3_FOCUS

\* C13: a freshly constructed navigator (no call made yet) is at Root with
\* the sector, app and window indices all unset.
C13_FreshNavigator ==
    (hist = <<>>) => nav = <<LEVEL_1_ROOT, Unset, Unset, Unset>>

\* C13 witness: the constructed navigator before any call.
C13_Witness ==
    /\ hist = <<>>
    /\ call = <<"new">>
    /\ m_currentLevel = LEVEL_1_ROOT

\* C14: zoomIn(t) for every t, zoomOut() and splitView() can be called in
\* every reachable state; zoomIn at Focus, zoomOut at Root and splitView
\* outside Focus change no member and report the refusal.
C14_NoOperationFails ==
    /\ [](\A t \in TargetIndex : ENABLED zoomIn(t))
    /\ [](ENABLED zoomOut)
    /\ [](ENABLED splitView)
    /\ [][ /\ (m_currentLevel = LEVEL_3_FOCUS /\ call'[1] = "zoomIn")
                => /\ nav' = nav
                   /\ out'[1] = <<"[Navigate] Already at deepest level (Level 3 Focus).">>
           /\ (m_currentLevel = LEVEL_1_ROOT /\ call' = <<"zoomOut">>)
                => /\ nav' = nav
                   /\ out'[1] = <<"[Navigate] Already at top level (Level 1 Root).">>
           /\ (m_currentLevel # LEVEL_3_FOCUS /\ call' = <<"splitView">>)
                => /\ nav' = nav
                   /\ out' = << <<"[Split] Can only split from a focused app (Level 3).">> >>
       ]_vars

\* C14 witness: splitView() was just refused at the Picker, right after a
\* zoomIn with a negative target had been accepted.
C14_Witness ==
    /\ Len(hist) = 2
    /\ CallOf(1) = <<"zoomIn", -2>>
    /\ CallOf(2) = <<"splitView">>
    /\ LevelBefore(2) # LEVEL_3_FOCUS
    /\ out = << <<"[Split] Can only split from a focused app (Level 3).">> >>

\* The message zoomIn / zoomOut is expected to emit for a move from one
\* level to another (or for staying at a boundary).
TransitionMessage(op, from, to) ==
    IF op = "zoomIn"
    THEN CASE from = LEVEL_1_ROOT -> "[Zoom In] Entering Sector "
           [] from = LEVEL_2_SECTOR -> "[Zoom In] Focusing on App "
           [] from = LEVEL_3A_PICKER -> "[Zoom In] Selected Window "
           [] OTHER -> "[Navigate] Already at deepest level (Level 3 Focus)."
    ELSE CASE from = LEVEL_3_FOCUS /\ to = LEVEL_3A_PICKER ->
                "[Zoom Out] Multiple windows detected -> Entering Window Picker (Level 3a)."
           [] from = LEVEL_3_FOCUS /\ to # LEVEL_3A_PICKER ->
                "[Zoom Out] Returning to Sector View (Level 2)."
           [] from = LEVEL_3A_PICKER ->
                "[Zoom Out] Returning to Sector View (Level 2) from Picker."
           [] from = LEVEL_2_SECTOR ->
                "[Zoom Out] Returning to Root Overview (Level 1)."
           [] OTHER -> "[Navigate] Already at top level (Level 1 Root)."

\* C15: every zoomIn or zoomOut call, the no-ops at Focus and Root
\* included, writes one message naming the transition taken and then the
\* status line, which shows the level that holds after the call.
C15_MessageThenStatus ==
    (call[1] \in {"zoomIn", "zoomOut"}) =>
        /\ Len(out) = 2
        /\ out[1][1] = TransitionMessage(call[1], LevelBefore(Len(hist)),
                                         m_currentLevel)
        /\ out[2] = <<"Current State: ", m_currentLevel>>

\* C15 witness: zoomOut() has just moved from Sector to Root and the
\* status line shows Root.
C15_Witness ==
    /\ call = <<"zoomOut">>
    /\ LevelBefore(Len(hist)) = LEVEL_2_SECTOR
    /\ m_currentLevel = LEVEL_1_ROOT
    /\ out[2] = <<"Current State: ", 0>>

\* C16: from every reachable state three zoomOut() calls in a row end at
\* Root (Root itself is kept by zoomOut), every level can be left by some
\* call, and zoomIn at Root enters Sector again.
C16_ZoomOutReachesRoot ==
    /\ [](ENABLED (Next /\ m_currentLevel' # m_currentLevel))
    /\ [][ /\ ( /\ Len(hist) = 2
                /\ CallOf(1) = <<"zoomOut">>
                /\ CallOf(2) = <<"zoomOut">>
                /\ call' = <<"zoomOut">> )
              => m_currentLevel' = LEVEL_1_ROOT
           /\ (m_currentLevel = LEVEL_1_ROOT /\ call' = <<"zoomOut">>)
              => m_currentLevel' = LEVEL_1_ROOT
           /\ (m_currentLevel = LEVEL_1_ROOT /\ call'[1] = "zoomIn")
              => m_currentLevel' = LEVEL_2_SECTOR ]_vars

\* C16 witness: Root has just been reached by zoomOut() calls made at the
\* Picker and at Sector.
C16_Witness ==
    /\ Len(hist) = 2
    /\ CallOf(1) = <<"zoomOut">>
    /\ LevelBefore(1) = LEVEL_3A_PICKER
    /\ CallOf(2) = <<"zoomOut">>
    /\ LevelBefore(2) = LEVEL_2_SECTOR
    /\ m_currentLevel = LEVEL_1_ROOT

\* C17: whenever the level is Focus and activeWindowIndex is set, the
\* window index was stored by a Picker->Focus zoomIn made for the app now
\* active; in particular it is unset when Focus has just been entered from
\* Sector after passing through Root.
C17_WindowBelongsToActiveApp ==
    /\ (m_currentLevel = LEVEL_3_FOCUS /\ IsSet(m_activeWindowIndex))
          => windowFor = <<m_activeAppIndex>>
    /\ ( /\ Len(hist) = 2
         /\ CallOf(1)[1] = "zoomIn" /\ LevelBefore(1) = LEVEL_1_ROOT
         /\ CallOf(2)[1] = "zoomIn" /\ LevelBefore(2) = LEVEL_2_SECTOR )
          => ~IsSet(m_activeWindowIndex)

\* C18: in every reachable state whose level is Picker, activeAppIndex is
\* even, i.e. it satisfies the multiple-windows test of zoomOut.
C18_PickerAppIsMultiWindow ==
    (m_currentLevel = LEVEL_3A_PICKER) => IsEven(m_activeAppIndex)

\* C18 witness: the Picker of the negative even app -2, re-entered after
\* a window had been selected.
C18_Witness ==
    /\ m_currentLevel = LEVEL_3A_PICKER
    /\ m_activeAppIndex = -2
    /\ IsSet(m_activeWindowIndex)
    /\ LevelBefore(Len(hist)) = LEVEL_3_FOCUS

\* C19: activeSectorIndex changes only in a zoomIn made at Root, which
\* stores the target, and in a zoomOut made at Sector, which resets it;
\* every other call leaves it as it was when the sector was entered.
C19_SectorIndexFrame ==
    [][ /\ (m_activeSectorIndex' # m_activeSectorIndex)
             => \/ /\ m_currentLevel = LEVEL_1_ROOT
                   /\ call'[1] = "zoomIn"
                   /\ m_activeSectorIndex' = call'[2]
                \/ /\ m_currentLevel = LEVEL_2_SECTOR
                   /\ call' = <<"zoomOut">>
                   /\ m_currentLevel' = LEVEL_1_ROOT
                   /\ m_activeSectorIndex' = Unset
        /\ (m_currentLevel # LEVEL_1_ROOT /\ m_currentLevel' # LEVEL_1_ROOT)
             => m_activeSectorIndex' = m_activeSectorIndex ]_vars

\* C19 witness: sector -2 is still selected after its app was left through
\* Focus -> Picker -> Sector.
C19_Witness ==
    /\ Len(hist) = 2
    /\ CallOf(1) = <<"zoomOut">> /\ LevelBefore(1) = LEVEL_3_FOCUS
    /\ CallOf(2) = <<"zoomOut">> /\ LevelBefore(2) = LEVEL_3A_PICKER
    /\ NavBefore(1)[2] = -2
    /\ m_currentLevel = LEVEL_2_SECTOR
    /\ m_activeSectorIndex = -2

====
